---- MODULE Spec2Model ----
(***************************************************************************)
(* The transaction functions of the MongoDB driver script: the four        *)
(* single-attempt withTransaction examples, manualTransactionExample and   *)
(* transactionWithRetry.  A call is one invocation of one of them; the     *)
(* driver (startSession, withTransaction, commitTransaction,               *)
(* abortTransaction, endSession) is the environment: each of its           *)
(* operations either succeeds or fails, and the model takes both.          *)
(***************************************************************************)
EXTENDS Integers, Sequences, FiniteSets, TLC

\* Number of calls in flight at once.
NumCalls == 1

\* const maxRetries = 3;
maxRetries == 3

Calls == 1..NumCalls

\* The transaction functions of the driver script.
ScriptFunctions ==
  { "basicTransactionExample", "movieRentalTransaction",
    "userProfileUpdateTransaction", "batchOperationsTransaction",
    "manualTransactionExample", "transactionWithRetry" }

\* With transactionExamples of the Mongoose script.
Functions == ScriptFunctions \cup {"transactionExamples"}

\* The functions whose transaction is run by session.withTransaction.
WithTransactionFns == Functions \ {"manualTransactionExample"}

\* What the driver reports when an operation fails: an error the driver
\* labels transient (write conflict, retryable network error) or any other.
ErrorKinds == {"transient", "fatal"}

Collections ==
  { "transaction_test", "movies", "rentals", "users", "user_activity",
    "batch_operations", "batch_summary", "manual_transaction_test",
    "retry_test", "transaction_user" }

VARIABLES
  pc,          \* pc[c]: the statement call c is at
  fn,          \* fn[c]: the function call c runs ("none" before the call)
  retryCount,  \* retryCount[c]: let retryCount of transactionWithRetry
  session,     \* session[c]: const session of the call, a reference
  sessions,    \* sessions[c]: the sessions startSession returned to call c
  opIdx,       \* opIdx[c]: the next operation of the transaction body
  error,       \* error[c]: the error bound in the catch clause
  completion,  \* completion[c]: how the try statement completes
  result,      \* result[c]: what the call gave its caller
  store,       \* store[coll]: the committed documents of a collection
  logged,      \* logged[c]: the errors the call wrote with console.error
  outcomes,    \* outcomes[c]: the outcome of each transaction attempt
  waits,       \* waits[c]: the number of setTimeout waits completed
  clientClosed, \* main has called client.close()
  cancelledAt  \* cancelledAt[c]: the number of attempts call c had started
               \* when its caller asked to cancel it (0: never asked)

\* What the transaction functions neither read nor write.
env == << clientClosed, cancelledAt >>

vars ==
  << pc, fn, retryCount, session, sessions, opIdx, error, completion,
     result, store, logged, outcomes, waits, clientClosed, cancelledAt >>

NoError == [kind |-> "none", attempt |-> 0]

Pending == [status |-> "pending", error |-> NoError]

Returned == [status |-> "returned", error |-> NoError]

Threw(e) == [status |-> "threw", error |-> e]

\* A session is named by the call that created it and its rank among the
\* sessions of that call.
NoSession == [call |-> 0, idx |-> 0]

Ref(c, i) == [call |-> c, idx |-> i]

\* A session as client.startSession() returns it.
NewSession(c) ==
  [ owner |-> c, ended |-> 0, txns |-> 0, commits |-> 0, aborts |-> 0,
    inTxn |-> FALSE, usedEnded |-> FALSE, pending |-> << >> ]

\* The operations of a function's transaction body, in program order.
\* val is the field of the inserted document the model keeps (attempt of
\* retry_test) or, for insertMany, the number of documents.
Op(type, coll, val) == [type |-> type, coll |-> coll, val |-> val]

Ops(f, rc) ==
  CASE f = "basicTransactionExample" ->
         << Op("insert", "transaction_test", 1),
            Op("insert", "transaction_test", 2) >>
    [] f = "movieRentalTransaction" ->
         << Op("find", "movies", 0), Op("insert", "rentals", 0),
            Op("inc", "movies", 1) >>
    [] f = "userProfileUpdateTransaction" ->
         << Op("find", "users", 0), Op("inc", "users", 1),
            Op("insert", "user_activity", 0) >>
    [] f = "batchOperationsTransaction" ->
         << Op("insertMany", "batch_operations", 3),
            Op("upsertInc", "batch_summary", 1) >>
    [] f = "manualTransactionExample" ->
         << Op("insert", "manual_transaction_test", 0) >>
    [] f = "transactionWithRetry" ->
         << Op("insert", "retry_test", rc + 1) >>
    [] f = "transactionExamples" ->
         << Op("insertUnique", "transaction_user", 0),
            Op("findOptional", "movies", 0), Op("inc", "movies", 1) >>
    [] OTHER -> << >>

\* findOne: reads, writes nothing.
IsRead(op) == op.type \in {"find", "findOptional"}

\* One operation given without { session }: it would run outside the
\* transaction.
PassesSessionButRental(f, i) == ~(f = "movieRentalTransaction" /\ i = 2)

\* Every operation of every body is given the session ({ session }), so it
\* belongs to the transaction.
PassesSession(f, i) == TRUE

\* if (!movie) throw ...; if (!user) throw ...
FindThrows(st, op) == op.type = "find" /\ st[op.coll] = << >>

Zeros(n) == [i \in 1..n |-> 0]

\* The effect of one write on the committed documents.
ApplyWrite(st, w) ==
  CASE w.type \in {"insert", "insertUnique"} ->
         [st EXCEPT ![w.coll] = Append(@, w.val)]
    [] w.type = "insertMany" -> [st EXCEPT ![w.coll] = @ \o Zeros(w.val)]
    [] w.type = "inc" ->
         IF st[w.coll] = << >> THEN st
         ELSE [st EXCEPT ![w.coll][1] = @ + w.val]
    [] w.type = "upsertInc" ->
         IF st[w.coll] = << >> THEN [st EXCEPT ![w.coll] = << w.val >>]
         ELSE [st EXCEPT ![w.coll][1] = @ + w.val]
    [] OTHER -> st

RECURSIVE ApplyAll(_, _)
ApplyAll(st, ws) ==
  IF ws = << >> THEN st ELSE ApplyAll(ApplyWrite(st, Head(ws)), Tail(ws))

\* deleteOne left out.
DeleteNothing(docs) == docs

\* User.deleteOne({ email: 'transaction@test.com' }): the first matching
\* document goes, if there is one.
DeleteOneOf(docs) == IF docs = << >> THEN docs ELSE Tail(docs)

\* retryCount left as it is.
RetryCountKept(rc) == rc

\* retryCount++
NextRetryCount(rc) == rc + 1

\* A slip in the loop test: the last attempt is never made.
LoopConditionOffByOne(rc) == rc + 1 < maxRetries

\* while (retryCount < maxRetries)
LoopCondition(rc) == rc < maxRetries

\* A slip in the give-up test: > for >=.
RetriesExceededStrict(rc) == rc > maxRetries

\* if (retryCount >= maxRetries) ... throw error
RetriesExceeded(rc) == rc >= maxRetries

\* The number of transactions the call has started, over all its sessions.
RECURSIVE SumTxns(_, _)
SumTxns(ss, i) ==
  IF i > Len(ss) THEN 0 ELSE ss[i].txns + SumTxns(ss, i + 1)

Attempts(c) == SumTxns(sessions[c], 1)

\* The session the call's variable refers to, and the table with that
\* session replaced.
Sess(c) == sessions[session[c].call][session[c].idx]

WithSess(c, s) == [sessions EXCEPT ![session[c].call][session[c].idx] = s]

\* The collections the sample_mflix data set brings.
SampleCollections == {"movies", "users"}

\* The store before the script runs: the sample data set is loaded (one
\* movie and one user, never rented, never logged in) or it is not; the
\* collections the script creates are empty.
InitStore ==
  { [k \in Collections |->
       IF loaded /\ k \in SampleCollections THEN << 0 >> ELSE << >>] :
    loaded \in BOOLEAN }

\* The state before any of the calls S is made.
InitOn(S) ==
  /\ pc = [c \in S |-> "idle"]
  /\ fn = [c \in S |-> "none"]
  /\ retryCount = [c \in S |-> 0]
  /\ session = [c \in S |-> NoSession]
  /\ sessions = [c \in S |-> << >>]
  /\ opIdx = [c \in S |-> 0]
  /\ error = [c \in S |-> NoError]
  /\ completion = [c \in S |-> "none"]
  /\ result = [c \in S |-> Pending]
  /\ store \in InitStore
  /\ logged = [c \in S |-> << >>]
  /\ outcomes = [c \in S |-> << >>]
  /\ waits = [c \in S |-> 0]
  /\ clientClosed = FALSE
  /\ cancelledAt = [c \in S |-> 0]

Init == InitOn(Calls)

IsRetry(c) == fn[c] = "transactionWithRetry"

IsManual(c) == fn[c] = "manualTransactionExample"

IsMongoose(c) == fn[c] = "transactionExamples"

\* The caller invokes function f.
Invoke(c, f) ==
  /\ pc[c] = "idle"
  /\ fn' = [fn EXCEPT ![c] = f]
  /\ pc' = [pc EXCEPT ![c] =
              IF f = "transactionWithRetry" THEN "while" ELSE "startSession"]
  /\ UNCHANGED << env, retryCount, session, sessions, opIdx, error,
                  completion,
                  result, store, logged, outcomes, waits >>

\* while (retryCount < maxRetries) { ... }: enter the body or fall out of
\* the loop, after which the function returns.
WhileTest(c) ==
  /\ pc[c] = "while"
  /\ IF LoopCondition(retryCount[c])
       THEN /\ pc' = [pc EXCEPT ![c] = "startSession"]
            /\ UNCHANGED result
       ELSE /\ pc' = [pc EXCEPT ![c] = "done"]
            /\ result' = [result EXCEPT ![c] = Returned]
  /\ UNCHANGED << env, fn, retryCount, session, sessions, opIdx, error,
                  completion, store, logged, outcomes, waits >>

\* startSession hoisted out of the loop: later attempts run on the session
\* of the first.
StartSessionHoisted(c) ==
  /\ pc[c] = "startSession"
  /\ IF sessions[c] = << >>
       THEN /\ sessions' = [sessions EXCEPT ![c] = Append(@, NewSession(c))]
            /\ session' = [session EXCEPT ![c] = Ref(c, 1)]
       ELSE UNCHANGED << session, sessions >>
  /\ pc' = [pc EXCEPT ![c] =
              IF IsManual(c) THEN "startTransaction" ELSE "withTransaction"]
  /\ UNCHANGED << env, fn, retryCount, opIdx, error, completion, result, store,
                  logged, outcomes, waits >>

\* session declared once for all invocations instead of const in the loop
\* body: every call sees the session acquired last.
StartSessionShared(c) ==
  /\ pc[c] = "startSession"
  /\ sessions' = [sessions EXCEPT ![c] = Append(@, NewSession(c))]
  /\ session' = [d \in DOMAIN session |-> Ref(c, Len(sessions[c]) + 1)]
  /\ pc' = [pc EXCEPT ![c] =
              IF IsManual(c) THEN "startTransaction" ELSE "withTransaction"]
  /\ UNCHANGED << env, fn, retryCount, opIdx, error, completion, result,
                  store, logged, outcomes, waits >>

\* const session = client.startSession(); a new session each time.
StartSession(c) ==
  /\ pc[c] = "startSession"
  /\ sessions' = [sessions EXCEPT ![c] = Append(@, NewSession(c))]
  /\ session' = [session EXCEPT ![c] = Ref(c, Len(sessions[c]) + 1)]
  /\ pc' = [pc EXCEPT ![c] =
              IF IsManual(c) THEN "startTransaction" ELSE "withTransaction"]
  /\ UNCHANGED << env, fn, retryCount, opIdx, error, completion, result, store,
                  logged, outcomes, waits >>

\* startSession moved inside the try: its exception is caught and counted
\* like a failed transaction.
StartSessionThrowsCaught(c) ==
  /\ pc[c] = "startSession"
  /\ error' = [error EXCEPT ![c] =
                 [kind |-> "startSession", attempt |-> Attempts(c) + 1]]
  /\ pc' = [pc EXCEPT ![c] = "catch"]
  /\ UNCHANGED << env, fn, retryCount, session, sessions, opIdx, completion,
                  result, store, logged, outcomes, waits >>

\* client.startSession() throws: the statement stands before the try, so
\* the exception leaves the function.
StartSessionThrows(c) ==
  /\ pc[c] = "startSession"
  /\ result' = [result EXCEPT ![c] =
                  Threw([kind |-> "startSession",
                         attempt |-> Attempts(c) + 1])]
  /\ pc' = [pc EXCEPT ![c] = "done"]
  /\ UNCHANGED << env, fn, retryCount, session, sessions, opIdx, error,
                  completion, store, logged, outcomes, waits >>

\* A transaction starts on the call's session.
BeginOn(c) ==
  /\ sessions' = WithSess(c, [Sess(c) EXCEPT !.txns = @ + 1, !.inTxn = TRUE,
                                              !.usedEnded = (Sess(c).ended > 0)])
  /\ opIdx' = [opIdx EXCEPT ![c] = 1]
  /\ pc' = [pc EXCEPT ![c] = "callback"]
  /\ UNCHANGED << env, fn, retryCount, session, error, completion, result, store,
                  logged, outcomes, waits >>

\* await session.withTransaction(async () => { ... }): the driver starts
\* the transaction and calls the body.
WithTransaction(c) ==
  /\ pc[c] = "withTransaction"
  /\ BeginOn(c)

\* session.startTransaction();
StartTransaction(c) ==
  /\ pc[c] = "startTransaction"
  /\ BeginOn(c)

\* The error the catch clause binds: its kind and the attempt it ended.
ErrorOf(c, k) == [kind |-> k, attempt |-> Attempts(c)]

\* The transaction attempt fails with an error of kind k.  Under
\* withTransaction the driver aborts the transaction before it rejects;
\* under manual control nothing is aborted yet.
AttemptFails(c, k, committing) ==
  /\ sessions' = WithSess(c,
        [Sess(c) EXCEPT
           !.commits = IF committing THEN @ + 1 ELSE @,
           !.aborts = IF IsManual(c) \/ committing THEN @ ELSE @ + 1,
           !.inTxn = IsManual(c) /\ ~committing,
           !.pending = IF IsManual(c) /\ ~committing THEN @ ELSE << >>])
  /\ error' = [error EXCEPT ![c] = ErrorOf(c, k)]
  /\ outcomes' = [outcomes EXCEPT ![c] = Append(@, k)]
  /\ pc' = [pc EXCEPT ![c] = "catch"]
  /\ UNCHANGED << env, fn, retryCount, session, opIdx, completion, result, store,
                  logged, waits >>

\* email: { unique: true }: the insert is refused while a document with
\* the email is committed or inserted by a transaction in progress.
DuplicateKey(op) ==
  /\ op.type = "insertUnique"
  /\ \/ store[op.coll] # << >>
     \/ \E d \in DOMAIN sessions :
          \E i \in 1..Len(sessions[d]) :
            \E j \in 1..Len(sessions[d][i].pending) :
              sessions[d][i].pending[j] = op

\* The next operation of the body succeeds: a write joins the transaction
\* of the session it is given (without a session it would take effect at
\* once); a find that matches nothing makes the body throw.
Operation(c) ==
  /\ pc[c] = "callback"
  /\ LET ops == Ops(fn[c], retryCount[c])
         op == ops[opIdx[c]]
         inTransaction == PassesSession(fn[c], opIdx[c])
     IN IF FindThrows(store, op) \/ DuplicateKey(op)
          THEN AttemptFails(c, "fatal", FALSE)
          ELSE /\ sessions' = WithSess(c,
                    [Sess(c) EXCEPT !.pending =
                       IF IsRead(op) \/ ~inTransaction THEN @
                       ELSE Append(@, op)])
               /\ store' = IF IsRead(op) \/ inTransaction THEN store
                           ELSE ApplyWrite(store, op)
               /\ opIdx' = [opIdx EXCEPT ![c] = @ + 1]
               /\ pc' = [pc EXCEPT ![c] =
                           IF opIdx[c] = Len(ops) THEN "commit" ELSE "callback"]
               /\ UNCHANGED << env, fn, retryCount, session, error, completion,
                               result, logged, outcomes, waits >>

\* The next operation of the body is rejected by the driver.
OperationFails(c, k) ==
  /\ pc[c] = "callback"
  /\ AttemptFails(c, k, FALSE)

\* The break forgotten: the loop goes round again after a success.
AfterTryNoBreak(c) == "normal"

\* How the try block completes after the transaction: break; leaves the
\* loop of transactionWithRetry, the other functions just go on.
AfterTry(c) == IF IsRetry(c) THEN "break" ELSE "normal"

\* The commit succeeds: the writes of the transaction become visible and
\* the try block completes (break; in transactionWithRetry).
Commit(c) ==
  /\ pc[c] = "commit"
  /\ store' = ApplyAll(store, Sess(c).pending)
  /\ sessions' = WithSess(c, [Sess(c) EXCEPT !.commits = @ + 1,
                                              !.inTxn = FALSE,
                                              !.pending = << >>])
  /\ outcomes' = [outcomes EXCEPT ![c] = Append(@, "ok")]
  /\ completion' = [completion EXCEPT ![c] = AfterTry(c)]
  /\ pc' = [pc EXCEPT ![c] = "finally"]
  /\ UNCHANGED << env, fn, retryCount, session, opIdx, error, result, logged,
                  waits >>

\* The commit (of withTransaction, or await session.commitTransaction())
\* is rejected with an error of kind k.
CommitFails(c, k) ==
  /\ pc[c] = "commit"
  /\ AttemptFails(c, k, TRUE)

\* The first failure kept and thrown instead of the last.
RethrownFirst(c) == logged[c][1]

\* throw error; rethrows what the catch clause bound.
Rethrown(c) == error[c]

\* catch (error) { ... }: every function logs the error; then
\* transactionWithRetry counts it and gives up or goes on to the wait,
\* manualTransactionExample goes on to abortTransaction, and the others
\* are done with the try statement.
Catch(c) ==
  /\ pc[c] = "catch"
  /\ logged' = [logged EXCEPT ![c] = Append(@, error[c])]
  /\ IF IsRetry(c)
       THEN /\ retryCount' = [retryCount EXCEPT ![c] = NextRetryCount(@)]
            /\ IF RetriesExceeded(NextRetryCount(retryCount[c]))
                 THEN /\ completion' = [completion EXCEPT ![c] = "throw"]
                      /\ pc' = [pc EXCEPT ![c] = "finally"]
                 ELSE /\ pc' = [pc EXCEPT ![c] = "wait"]
                      /\ UNCHANGED completion
       ELSE /\ UNCHANGED retryCount
            /\ IF IsManual(c)
                 THEN /\ pc' = [pc EXCEPT ![c] = "abortTransaction"]
                      /\ UNCHANGED completion
                 ELSE /\ completion' = [completion EXCEPT ![c] = "normal"]
                      /\ pc' = [pc EXCEPT ![c] = "finally"]
  /\ UNCHANGED << env, fn, session, sessions, opIdx, error, result, store,
                  outcomes, waits >>

\* await session.abortTransaction(); in the catch clause.
AbortTransaction(c) ==
  /\ pc[c] = "abortTransaction"
  /\ sessions' = WithSess(c, [Sess(c) EXCEPT !.aborts = @ + 1,
                                              !.inTxn = FALSE,
                                              !.pending = << >>])
  /\ completion' = [completion EXCEPT ![c] = "normal"]
  /\ pc' = [pc EXCEPT ![c] = "finally"]
  /\ UNCHANGED << env, fn, retryCount, session, opIdx, error, result, store,
                  logged, outcomes, waits >>

\* abortTransaction() itself throws: the exception leaves the catch clause.
AbortTransactionThrows(c) ==
  /\ pc[c] = "abortTransaction"
  /\ sessions' = WithSess(c, [Sess(c) EXCEPT !.aborts = @ + 1,
                                              !.inTxn = FALSE,
                                              !.pending = << >>])
  /\ error' = [error EXCEPT ![c] = ErrorOf(c, "abortTransaction")]
  /\ completion' = [completion EXCEPT ![c] = "throw"]
  /\ pc' = [pc EXCEPT ![c] = "finally"]
  /\ UNCHANGED << env, fn, retryCount, session, opIdx, result, store, logged,
                  outcomes, waits >>

\* await new Promise(resolve => setTimeout(resolve, 1000)); the last
\* statement of the catch clause.
Wait(c) ==
  /\ pc[c] = "wait"
  /\ waits' = [waits EXCEPT ![c] = @ + 1]
  /\ completion' = [completion EXCEPT ![c] = "normal"]
  /\ pc' = [pc EXCEPT ![c] = "finally"]
  /\ UNCHANGED << env, fn, retryCount, session, sessions, opIdx, error, result,
                  store, logged, outcomes >>

\* endSession written at the end of the catch clause instead of in a
\* finally: skipped when the clause throws.
EndSessionUnlessThrow(c) ==
  IF completion[c] = "throw" THEN sessions
  ELSE WithSess(c, [Sess(c) EXCEPT !.ended = @ + 1])

\* endSession written after the loop instead of in a finally: skipped
\* when the loop goes round.
EndSessionAfterLoop(c) ==
  IF completion[c] = "normal" /\ IsRetry(c) THEN sessions
  ELSE WithSess(c, [Sess(c) EXCEPT !.ended = @ + 1])

\* await session.endSession();
EndSession(c) == WithSess(c, [Sess(c) EXCEPT !.ended = @ + 1])

\* finally { await session.endSession(); } and then what the completion of
\* the try statement asks for: leave the loop, throw, or go on.
Finally(c) ==
  /\ pc[c] = "finally"
  /\ sessions' = EndSession(c)
  /\ CASE completion[c] = "throw" ->
            /\ result' = [result EXCEPT ![c] = Threw(Rethrown(c))]
            /\ pc' = [pc EXCEPT ![c] = "done"]
       [] completion[c] = "normal" /\ IsRetry(c) ->
            /\ pc' = [pc EXCEPT ![c] = "while"]
            /\ UNCHANGED result
       [] completion[c] = "normal" /\ IsMongoose(c) ->
            /\ pc' = [pc EXCEPT ![c] = "deleteOne"]
            /\ UNCHANGED result
       [] OTHER ->
            /\ result' = [result EXCEPT ![c] = Returned]
            /\ pc' = [pc EXCEPT ![c] = "done"]
  /\ completion' = [completion EXCEPT ![c] = "none"]
  /\ UNCHANGED << env, fn, retryCount, session, opIdx, error, store, logged,
                  outcomes, waits >>

\* await User.deleteOne({ email: 'transaction@test.com' }); the second
\* statement of the finally clause of transactionExamples, given no session.
DeleteOne(c) ==
  /\ pc[c] = "deleteOne"
  /\ store' = [store EXCEPT !["transaction_user"] = DeleteOneOf(@)]
  /\ result' = [result EXCEPT ![c] = Returned]
  /\ pc' = [pc EXCEPT ![c] = "done"]
  /\ UNCHANGED << env, fn, retryCount, session, sessions, opIdx, error,
                  completion, logged, outcomes, waits >>

\* User.deleteOne rejects: the exception leaves the finally clause and the
\* function.
DeleteOneThrows(c) ==
  /\ pc[c] = "deleteOne"
  /\ result' = [result EXCEPT ![c] =
                  Threw([kind |-> "deleteOne", attempt |-> Attempts(c)])]
  /\ pc' = [pc EXCEPT ![c] = "done"]
  /\ UNCHANGED << env, fn, retryCount, session, sessions, opIdx, error,
                  completion, store, logged, outcomes, waits >>

Next ==
  \E c \in Calls :
    \/ \E f \in Functions : Invoke(c, f)
    \/ WhileTest(c)
    \/ StartSession(c)
    \/ StartSessionThrows(c)
    \/ WithTransaction(c)
    \/ StartTransaction(c)
    \/ Operation(c)
    \/ \E k \in ErrorKinds : OperationFails(c, k)
    \/ Commit(c)
    \/ \E k \in ErrorKinds : CommitFails(c, k)
    \/ Catch(c)
    \/ AbortTransaction(c)
    \/ AbortTransactionThrows(c)
    \/ Wait(c)
    \/ Finally(c)
    \/ DeleteOne(c)
    \/ DeleteOneThrows(c)

Spec == Init /\ [][Next]_vars

\* Two invocations of transactionWithRetry against the same store.
RunPair == {1, 2}

\* The steps of transactionWithRetry once it is invoked.
RunStep(c) ==
  \/ WhileTest(c)
  \/ StartSession(c)
  \/ StartSessionThrows(c)
  \/ WithTransaction(c)
  \/ Operation(c)
  \/ \E k \in ErrorKinds : OperationFails(c, k)
  \/ Commit(c)
  \/ \E k \in ErrorKinds : CommitFails(c, k)
  \/ Catch(c)
  \/ Wait(c)
  \/ Finally(c)

\* The steps of an invocation of transactionWithRetry.
RetryStep(c) == Invoke(c, "transactionWithRetry") \/ RunStep(c)

NextPair == \E c \in RunPair : RetryStep(c)

SpecPair == InitOn(RunPair) /\ [][NextPair]_vars

\* The caller of transactionWithRetry asks to cancel the call while it
\* waits before the next attempt.  The function takes only the client
\* (async function transactionWithRetry(client: MongoClient)) and reads no
\* signal, so the request changes nothing the function sees.
Cancel(c) ==
  /\ IsRetry(c)
  /\ pc[c] = "wait"
  /\ cancelledAt[c] = 0
  /\ cancelledAt' = [cancelledAt EXCEPT ![c] = Attempts(c)]
  /\ UNCHANGED << pc, fn, retryCount, session, sessions, opIdx, error,
                  completion, result, store, logged, outcomes, waits,
                  clientClosed >>

NextCancel == \E c \in Calls : RetryStep(c) \/ Cancel(c)

SpecCancel == Init /\ [][NextCancel]_vars

NextRetry == \E c \in Calls : RetryStep(c)

\* transactionWithRetry under the scheduling the claim of termination
\* assumes: every await of the function (session acquisition, transaction,
\* wait, release) settles, so an invoked call that can take a step
\* eventually takes one.
FairRetrySpec ==
  Init /\ [][NextRetry]_vars /\ \A c \in Calls : WF_vars(RunStep(c))

\* main of the driver script: the four examples it awaits, in order.
MainSequence ==
  << "basicTransactionExample", "movieRentalTransaction",
     "userProfileUpdateTransaction", "batchOperationsTransaction" >>

MainCalls == DOMAIN MainSequence

\* The awaits left out: main goes on at once.
NotAwaited(c) == TRUE

\* await f(client): main goes on when the promise of call c is fulfilled
\* (if it is rejected main throws and nothing of main follows).
Awaited(c) == pc[c] = "done" /\ result[c] = Returned

\* await basicTransactionExample(client); ... the c-th example is called
\* once the one before it was awaited.
MainInvoke(c) ==
  /\ ~clientClosed
  /\ IF c = 1 THEN TRUE ELSE Awaited(c - 1)
  /\ Invoke(c, MainSequence[c])

\* await client.close(); after the last example.
ClientClose ==
  /\ ~clientClosed
  /\ Awaited(Len(MainSequence))
  /\ clientClosed' = TRUE
  /\ UNCHANGED << pc, fn, retryCount, session, sessions, opIdx, error,
                  completion, result, store, logged, outcomes, waits,
                  cancelledAt >>

\* The steps of one of the four withTransaction examples once invoked.
ExampleStep(c) ==
  \/ StartSession(c)
  \/ StartSessionThrows(c)
  \/ WithTransaction(c)
  \/ Operation(c)
  \/ \E k \in ErrorKinds : OperationFails(c, k)
  \/ Commit(c)
  \/ \E k \in ErrorKinds : CommitFails(c, k)
  \/ Catch(c)
  \/ Finally(c)

NextMain ==
  \/ \E c \in MainCalls : MainInvoke(c) \/ ExampleStep(c)
  \/ ClientClose

SpecMain == InitOn(MainCalls) /\ [][NextMain]_vars

(***************************************************************************)
(* Properties.                                                             *)
(***************************************************************************)

RetryCalls == { c \in Calls : IsRetry(c) }

Done(c) == pc[c] = "done"

\* The call ended because client.startSession() threw.
AcquireFailed(c) == result[c].error.kind = "startSession"

Failed(o) == o \in ErrorKinds

LastOutcome(c) == outcomes[c][Len(outcomes[c])]

AllTransient(c) ==
  \A i \in 1..Len(outcomes[c]) : outcomes[c][i] = "transient"

\* Attempts 1..k-1 failed with a transient error and attempt k succeeded.
TransientThenOk(c) ==
  /\ outcomes[c] # << >>
  /\ LastOutcome(c) = "ok"
  /\ \A i \in 1..(Len(outcomes[c]) - 1) : outcomes[c][i] = "transient"

C2_SuccessOnAttemptK ==
  \A c \in RetryCalls :
    TransientThenOk(c) =>
      /\ Attempts(c) = Len(outcomes[c])
      /\ pc[c] \in {"finally", "done"}
      /\ \E j \in 1..Len(store["retry_test"]) :
           store["retry_test"][j] = Len(outcomes[c])
      /\ Done(c) => result[c] = Returned

C2_Witness ==
  \E c \in RetryCalls :
    /\ Done(c)
    /\ outcomes[c] = << "transient", "transient", "ok" >>
    /\ result[c] = Returned

\* C3 (as claimed): when the first attempt of transactionWithRetry fails
\* with a fatal error, no second attempt is started, no wait takes place,
\* and the call ends by throwing that error.
C3_FatalNotRetried ==
  \A c \in RetryCalls :
    (outcomes[c] # << >> /\ outcomes[c][1] = "fatal") =>
      /\ Attempts(c) = 1
      /\ waits[c] = 0
      /\ pc[c] \notin {"wait", "while", "startSession"}
      /\ Done(c) => result[c] = Threw([kind |-> "fatal", attempt |-> 1])

\* The sessions of call c that have not been released.
Unreleased(c) == { i \in 1..Len(sessions[c]) : sessions[c][i].ended = 0 }

\* C4: in transactionWithRetry every session is released at most once; the
\* session of an attempt is released before the loop tests its condition
\* again and before the call ends, whether the attempt left by break, was
\* retried, or had its error rethrown; and a session serves one attempt.
C4_ReleasedExactlyOnce ==
  \A c \in RetryCalls :
    /\ \A i \in 1..Len(sessions[c]) :
         /\ sessions[c][i].ended <= 1
         /\ sessions[c][i].txns <= 1
    /\ pc[c] \in {"while", "startSession", "done"} => Unreleased(c) = {}

C4_Witness ==
  \E c \in RetryCalls :
    /\ Done(c)
    /\ result[c].status = "threw"
    /\ Len(sessions[c]) = 3
    /\ \A i \in 1..3 : sessions[c][i].ended = 1 /\ sessions[c][i].txns = 1

\* C5: a call of transactionWithRetry holds at most one unreleased session
\* at any time, and it is the one acquired last: every earlier session was
\* released before the next was acquired.
C5_OneSessionAtATime ==
  \A c \in RetryCalls :
    /\ Cardinality(Unreleased(c)) <= 1
    /\ Unreleased(c) \subseteq {Len(sessions[c])}

C5_Witness ==
  \E c \in RetryCalls :
    /\ Len(sessions[c]) = 2
    /\ sessions[c][1].ended = 1
    /\ Unreleased(c) = {2}
    /\ pc[c] = "callback"

\* C6: in transactionWithRetry no session has more than one transaction
\* started on it, no transaction is started on a released session, and a
\* transaction in progress runs on the session acquired last, which no
\* earlier attempt used.
C6_FreshSessionPerAttempt ==
  \A c \in RetryCalls :
    /\ \A i \in 1..Len(sessions[c]) :
         /\ sessions[c][i].txns <= 1
         /\ ~sessions[c][i].usedEnded
    /\ pc[c] \in {"withTransaction", "callback", "commit"} =>
         /\ session[c] = Ref(c, Len(sessions[c]))
         /\ Sess(c).ended = 0
         /\ Sess(c).txns = (IF pc[c] = "withTransaction" THEN 0 ELSE 1)
         /\ Attempts(c) = Len(outcomes[c]) + Sess(c).txns

C6_Witness ==
  \E c \in RetryCalls :
    /\ pc[c] = "callback"
    /\ outcomes[c] = << "transient" >>
    /\ session[c] = Ref(c, 2)
    /\ sessions[c][1].txns = 1
    /\ sessions[c][2].txns = 1

\* C7: an exception of client.startSession() is never bound by the catch
\* clause of transactionWithRetry nor logged there; the call ends at once by
\* throwing it, with retryCount, the number of waits and the number of
\* transactions started all still equal to the number of attempts that
\* failed before, and with no session left unreleased.
C7_AcquireFailureNotRetried ==
  \A c \in RetryCalls :
    /\ error[c].kind # "startSession"
    /\ \A i \in 1..Len(logged[c]) : logged[c][i].kind # "startSession"
    /\ AcquireFailed(c) =>
         /\ Done(c)
         /\ result[c].status = "threw"
         /\ retryCount[c] = Len(outcomes[c])
         /\ waits[c] = Len(outcomes[c])
         /\ Attempts(c) = Len(outcomes[c])
         /\ Len(sessions[c]) = Len(outcomes[c])
         /\ result[c].error.attempt = Len(outcomes[c]) + 1

C7_Witness ==
  \E c \in RetryCalls :
    /\ AcquireFailed(c)
    /\ Done(c)
    /\ outcomes[c] = << "transient" >>
    /\ retryCount[c] = 1

\* C8 (as claimed): once a transaction was started on a session and the
\* function is past its try statement, exactly one of commit and abort was
\* called on the session: commit and no abort when the operations
\* succeeded, abort and no commit when one failed.
C8_ExactlyOneCommitOrAbort ==
  \A c \in Calls :
    \A i \in 1..Len(sessions[c]) :
      (sessions[c][i].txns >= 1 /\ sessions[c][i].ended >= 1) =>
        sessions[c][i].commits + sessions[c][i].aborts = 1

\* The part of C8 that the code keeps: under withTransaction exactly one of
\* commit and abort per transaction, and under manual control a failed
\* operation leads to one abort and no commit.
C8_HoldsUnlessManualCommitFails ==
  \A c \in Calls :
    \A i \in 1..Len(sessions[c]) :
      (sessions[c][i].txns >= 1 /\ sessions[c][i].ended >= 1) =>
        \/ sessions[c][i].commits + sessions[c][i].aborts = 1
        \/ /\ IsManual(c)
           /\ sessions[c][i].commits = 1
           /\ sessions[c][i].aborts = 1

\* The last transaction attempt of the call failed and the call is over.
FinallyFailed(c) ==
  /\ Done(c)
  /\ outcomes[c] # << >>
  /\ Failed(LastOutcome(c))

\* The error of the last failed attempt, as the catch clause bound it.
LastFailure(c) == [kind |-> LastOutcome(c), attempt |-> Len(outcomes[c])]

Exhausted(c) ==
  /\ IsRetry(c)
  /\ Done(c)
  /\ Len(outcomes[c]) = maxRetries
  /\ Failed(LastOutcome(c))

Committed(c) == outcomes[c] # << >> /\ LastOutcome(c) = "ok"

\* The number of calls of function f whose transaction has committed.
CommittedCalls(f) ==
  Cardinality({ c \in DOMAIN fn : fn[c] = f /\ Committed(c) })

\* The counter of the first document of a collection (0 without one).
Counter(coll) == IF store[coll] = << >> THEN 0 ELSE store[coll][1]

\* C11: in every state, hence whenever one of the functions has returned,
\* the store holds all the writes of each committed transaction and none of
\* any other: as many rentals as movieRentalTransaction calls committed and
\* the movie's rentedCount raised once for each (and once for each
\* committed transactionExamples); likewise one user_activity record and
\* one loginCount per committed userProfileUpdateTransaction, and three
\* batch documents and one totalOrders per committed
\* batchOperationsTransaction; a call that ended without committing (no
\* movie found, a write or the commit failed) has left nothing.
C11_AllOrNothing ==
  LET r == CommittedCalls("movieRentalTransaction")
      m == CommittedCalls("transactionExamples")
      u == CommittedCalls("userProfileUpdateTransaction")
      b == CommittedCalls("batchOperationsTransaction")
  IN /\ Len(store["rentals"]) = r
     /\ Counter("movies") = (IF store["movies"] = << >> THEN 0 ELSE r + m)
     /\ store["movies"] = << >> => r = 0
     /\ Len(store["user_activity"]) = u
     /\ Counter("users") = u
     /\ Len(store["batch_operations"]) = 3 * b
     /\ store["batch_summary"] = (IF b = 0 THEN << >> ELSE << b >>)

\* movieRentalTransaction returned after its second write (the third
\* operation) was rejected: the rental record of the first is not visible.
C11_Witness ==
  \E c \in Calls :
    /\ fn[c] = "movieRentalTransaction"
    /\ Done(c)
    /\ result[c] = Returned
    /\ outcomes[c] \in { << "transient" >>, << "fatal" >> }
    /\ store["movies"] = << 0 >>
    /\ store["rentals"] = << >>
    /\ opIdx[c] = 3
    /\ Sess(c).aborts = 1

\* The number of failed attempts among the outcomes of call c.
Failures(c) ==
  Cardinality({ i \in 1..Len(outcomes[c]) : Failed(outcomes[c][i]) })

\* C12: with two invocations of transactionWithRetry interleaved, the
\* session a call uses and releases is one it acquired itself, every
\* session has had at most the one transaction and the one release of its
\* call, and retryCount and the number of attempts of a call follow from
\* the failures of its own attempts alone.
C12_CallsShareNothing ==
  \A c \in RunPair :
    /\ session[c] = NoSession \/ session[c].call = c
    /\ \A i \in 1..Len(sessions[c]) :
         /\ sessions[c][i].owner = c
         /\ sessions[c][i].txns <= 1
         /\ sessions[c][i].ended <= 1
    /\ retryCount[c] = Failures(c) - (IF pc[c] = "catch" THEN 1 ELSE 0)
    /\ Attempts(c) =
         Len(outcomes[c]) + (IF pc[c] \in {"callback", "commit"} THEN 1 ELSE 0)
    /\ Attempts(c) <= Failures(c) + 1

C12_Witness ==
  /\ pc[1] = "callback"
  /\ pc[2] = "callback"
  /\ outcomes[1] = << "transient", "transient" >>
  /\ outcomes[2] = << >>
  /\ session[1] = Ref(1, 3)
  /\ session[2] = Ref(2, 1)

\* C13 (as claimed): once cancellation was asked for during the wait
\* between two attempts, no further attempt is started and the call ends
\* with a Cancelled error.
C13_CancelStopsRetrying ==
  \A c \in Calls :
    cancelledAt[c] > 0 =>
      /\ Attempts(c) = cancelledAt[c]
      /\ pc[c] \notin {"startSession", "withTransaction", "callback", "commit"}
      /\ Done(c) =>
           /\ result[c].status = "threw"
           /\ result[c].error.kind = "Cancelled"

\* C14 (as claimed): while transactionWithRetry waits before the next
\* attempt, the session of the failed attempt has already been released.
C14_ReleasedBeforeWait ==
  \A c \in Calls : pc[c] = "wait" => Unreleased(c) = {}

\* The passes through the loop body the call has begun: its transactions,
\* and the pass in which client.startSession() threw.
Iterations(c) == Attempts(c) + (IF AcquireFailed(c) THEN 1 ELSE 0)

\* C15: transactionWithRetry waits only after a failed attempt that another
\* pass of the loop follows (retryCount < maxRetries), never more often
\* than attempts have failed, and not after a success; when the call ends,
\* the waits are one fewer than the passes through the loop it began.
C15_WaitsBetweenAttempts ==
  \A c \in RetryCalls :
    /\ pc[c] = "wait" =>
         /\ outcomes[c] # << >>
         /\ Failed(LastOutcome(c))
         /\ LoopCondition(retryCount[c])
    /\ waits[c] <= Failures(c)
    /\ Committed(c) => waits[c] = Attempts(c) - 1
    /\ Done(c) => waits[c] = Iterations(c) - 1

C15_Witness ==
  \E c \in RetryCalls :
    /\ Done(c)
    /\ result[c].status = "threw"
    /\ Attempts(c) = 3
    /\ Failures(c) = 3
    /\ waits[c] = 2

\* The functions that make one attempt.
SingleAttemptCalls == { c \in Calls : fn[c] \in Functions /\ ~IsRetry(c) }

\* C16: a single-attempt function acquires one session and ends it at most
\* once; when the function is past its try statement the session has been
\* ended, whether the body threw, the commit failed or abortTransaction
\* threw in the catch clause; and a session is ended with no transaction in
\* progress, the transaction whose body failed having been aborted before.
C16_SessionEndedOnce ==
  \A c \in SingleAttemptCalls :
    /\ Len(sessions[c]) <= 1
    /\ \A i \in 1..Len(sessions[c]) :
         /\ sessions[c][i].ended <= 1
         /\ sessions[c][i].ended = 1 =>
              /\ ~sessions[c][i].inTxn
              /\ (sessions[c][i].txns = 1 /\ sessions[c][i].commits = 0) =>
                   sessions[c][i].aborts = 1
         /\ pc[c] \in {"deleteOne", "done"} => sessions[c][i].ended = 1

C16_Witness ==
  \E c \in SingleAttemptCalls :
    /\ IsManual(c)
    /\ Done(c)
    /\ result[c].status = "threw"
    /\ result[c].error.kind = "abortTransaction"
    /\ sessions[c][1].ended = 1
    /\ sessions[c][1].aborts = 1

\* C17: retryCount of transactionWithRetry stays within 0..maxRetries,
\* never decreases, grows by one with every pass through the catch clause,
\* and every invoked call ends (returns or throws).
C17_RetryTerminates ==
  /\ [](\A c \in Calls : retryCount[c] \in 0..maxRetries)
  /\ [][\A c \in Calls :
          /\ retryCount'[c] >= retryCount[c]
          /\ (pc[c] = "catch" /\ pc'[c] # "catch") =>
               retryCount'[c] = retryCount[c] + 1]_vars
  /\ \A c \in Calls : IsRetry(c) ~> Done(c)

C17_Witness ==
  \E c \in RetryCalls :
    /\ Done(c)
    /\ retryCount[c] = maxRetries
    /\ result[c].status = "threw"

\* C18: in main a transaction example is called only when every example
\* before it is over, and once client.close() was called every example is
\* over, every session any of them started is ended and none has a
\* transaction in progress.
C18_SequentialThenClose ==
  /\ \A c, d \in MainCalls : (c < d /\ pc[d] # "idle") => Done(c)
  /\ clientClosed =>
       \A c \in MainCalls :
         /\ Done(c)
         /\ \A i \in 1..Len(sessions[c]) :
              sessions[c][i].ended = 1 /\ ~sessions[c][i].inTxn

C18_Witness ==
  /\ clientClosed
  /\ \A c \in MainCalls : Len(sessions[c]) = 1 /\ sessions[c][1].ended = 1
  /\ Failed(outcomes[2][1])
  /\ outcomes[4] = << "ok" >>

\* C19: the step by which transactionExamples returns normally is the
\* deleteOne after the finally's endSession: it is taken with the call's
\* session ended and leaves no user with the email in the store; and no
\* other step takes such a user away.
C19_UserRemovedAfterRelease ==
  [][\A c \in Calls :
       /\ (IsMongoose(c) /\ pc[c] # "done" /\ pc'[c] = "done"
             /\ result'[c] = Returned) =>
            /\ pc[c] = "deleteOne"
            /\ Sess(c).ended = 1
            /\ store'["transaction_user"] = << >>
       /\ (pc[c] # pc'[c] /\
             Len(store'["transaction_user"]) < Len(store["transaction_user"]))
            => (IsMongoose(c) /\ pc[c] = "deleteOne" /\ Sess(c).ended = 1)]_vars

\* transactionExamples has returned after its transaction committed, and
\* the user it created is gone.
C19_Witness ==
  \E c \in Calls :
    /\ IsMongoose(c)
    /\ Done(c)
    /\ result[c] = Returned
    /\ Committed(c)
    /\ Sess(c).ended = 1
    /\ store["transaction_user"] = << >>

====
